---- MODULE Spec2Model ----
(***************************************************************************)
(* A model of the CKAD practitioner quiz trainer: the Timer, the           *)
(* QuizState session, the HintState tracker, the App coordinator that      *)
(* dispatches key presses to them and the Content block QuizUI renders     *)
(* (src/src/timer.rs, quiz_state.rs, app.rs, ui.rs), and the monolithic    *)
(* AppState with its run_app loop (src/src/main.rs).  Time is counted in   *)
(* whole seconds: `now` is the monotonic clock that Instant::now() reads.  *)
(***************************************************************************)
EXTENDS Integers, Sequences, FiniteSets

\* ------------------------------------------------------------------ bounds
MaxQuestions == 3
MaxHints == 3
MaxLimit == 2
MaxTime == 4
MaxCalls == 12
\* how far the model follows a hint_index that grows without bound
MaxHintGrowth == 4

VARIABLES
    questions,      \* QuizState.questions: what the repository returned
    pc,             \* "start" | "running" | "panicked" | "quit" | "hint"
    current_index,  \* QuizState.current_index
    started,        \* Timer.started
    limit,          \* Timer.limit
    now,            \* the monotonic clock
    show_hints,     \* HintState.show_hints
    hint_index,     \* HintState.hint_index
    max_hints,      \* the argument the HintState driver passes to next_hint
    calls,          \* next_hint calls made by the HintState driver since new/reset
    app             \* main.rs: the monolithic AppState (and whether its process runs)

vars == <<questions, pc, current_index, started, limit, now,
          show_hints, hint_index, max_hints, calls, app>>

\* ------------------------------------------------------------------ data
\* A Question, reduced to the two fields the session logic reads:
\* hints.len() and time_limit_secs.
Question == [hints : {0, 1, MaxHints}, time_limit_secs : {0, 1, MaxLimit}]

\* What a QuestionRepository may return: InMemoryQuestionRepository returns a
\* non-empty vector, FileQuestionRepository returns vec![].
get_questions == UNION {[1..n -> Question] : n \in 0..MaxQuestions}

\* usize::saturating_sub
saturating_sub(a, b) == IF a >= b THEN a - b ELSE 0

\* ------------------------------------------------------------------ Timer
Timer_elapsed == now - started

Timer_remaining_unclamped == limit - Timer_elapsed

Timer_remaining == saturating_sub(limit, Timer_elapsed)

Timer_is_expired == Timer_elapsed >= limit

Timer_new(limit_secs) ==
    /\ started' = now
    /\ limit' = limit_secs

Timer_reset(limit_secs) ==
    /\ started' = now
    /\ limit' = limit_secs

\* ------------------------------------------------------------------ QuizState
total_questions == Len(questions)

\* questions[current_index], 0-based in the source, 1-based here
current_question == questions[current_index + 1]

is_last_question == current_index >= total_questions - 1

\* QuizState::new indexes questions[0]: on an empty vector that panics.
QuizState_new ==
    IF Len(questions) = 0
    THEN /\ pc' = "panicked"
         /\ UNCHANGED <<current_index, started, limit>>
    ELSE /\ pc' = "running"
         /\ current_index' = 0
         /\ Timer_new(questions[1].time_limit_secs)

next_question_unguarded ==
    /\ current_index' = current_index + 1
    /\ Timer_reset(IF current_index + 1 < total_questions
                   THEN questions[current_index + 2].time_limit_secs
                   ELSE 0)

next_question_restarts ==
    IF ~is_last_question
    THEN /\ current_index' = current_index + 1
         /\ Timer_reset(questions[current_index + 2].time_limit_secs)
    ELSE /\ current_index' = current_index
         /\ Timer_reset(current_question.time_limit_secs)

next_question_skips ==
    IF ~is_last_question
    THEN /\ current_index' = total_questions - 1
         /\ Timer_reset(questions[total_questions].time_limit_secs)
    ELSE UNCHANGED <<current_index, started, limit>>

next_question ==
    IF ~is_last_question
    THEN /\ current_index' = current_index + 1
         /\ Timer_reset(questions[current_index + 2].time_limit_secs)
    ELSE UNCHANGED <<current_index, started, limit>>

\* ------------------------------------------------------------------ HintState
HintState_new ==
    /\ show_hints' = FALSE
    /\ hint_index' = 0

enable_hints == show_hints' = TRUE

next_hint_off_by_one(max) ==
    hint_index' = IF hint_index < max THEN hint_index + 1 ELSE hint_index

next_hint_wraps(max) ==
    hint_index' = IF hint_index < saturating_sub(max, 1) THEN hint_index + 1 ELSE 0

next_hint(max) ==
    hint_index' = IF hint_index < saturating_sub(max, 1)
                  THEN hint_index + 1
                  ELSE hint_index

HintState_reset_keeps_index ==
    /\ show_hints' = FALSE
    /\ hint_index' = hint_index

HintState_reset ==
    /\ show_hints' = FALSE
    /\ hint_index' = 0

\* ------------------------------------------------------------------ App
handle_hint_request_ungated ==
    /\ enable_hints
    /\ next_hint(current_question.hints)

handle_hint_request ==
    IF ~Timer_is_expired
    THEN /\ enable_hints
         /\ next_hint(current_question.hints)
    ELSE UNCHANGED <<show_hints, hint_index>>

handle_next_question_ungated ==
    /\ next_question
    /\ HintState_reset

handle_next_question_keeps_hints ==
    IF Timer_is_expired
    THEN /\ next_question
         /\ UNCHANGED <<show_hints, hint_index>>
    ELSE UNCHANGED <<current_index, started, limit, show_hints, hint_index>>

handle_next_question_inverted ==
    IF ~Timer_is_expired
    THEN /\ next_question
         /\ HintState_reset
    ELSE UNCHANGED <<current_index, started, limit, show_hints, hint_index>>

handle_next_question ==
    IF Timer_is_expired
    THEN /\ next_question
         /\ HintState_reset
    ELSE UNCHANGED <<current_index, started, limit, show_hints, hint_index>>

\* ------------------------------------------------------------------ QuizUI
\* One line of the Content block.  kind: "prompt" (Press 'h' for hints),
\* "hint" (Hint <number>: <hint>), "answer_title" (Answer:) or "answer" (the
\* answer's lines).  hint is the index of the hint text shown, -1 standing for
\* "No more hints" (hints.get(..) is None) and for lines that show no hint.
ContentLine(kind, number, hint) == [kind |-> kind, number |-> number, hint |-> hint]

\* question.hints.get(i), with -1 for None
hints_get(q, i) == IF i < q.hints THEN i ELSE -1

render_content_answer_always ==
    (IF ~Timer_is_expired
     THEN << IF show_hints
             THEN ContentLine("hint", hint_index + 1,
                              hints_get(current_question, hint_index))
             ELSE ContentLine("prompt", 0, -1) >>
     ELSE << >>)
    \o << ContentLine("answer_title", 0, -1), ContentLine("answer", 0, -1) >>

render_content ==
    IF ~Timer_is_expired
    THEN << IF show_hints
            THEN ContentLine("hint", hint_index + 1,
                             hints_get(current_question, hint_index))
            ELSE ContentLine("prompt", 0, -1) >>
    ELSE << ContentLine("answer_title", 0, -1), ContentLine("answer", 0, -1) >>

\* ------------------------------------------------------------------ AppState
\* main.rs before AppState::new has run
AppState_unbuilt ==
    [pc |-> "start", current_question_idx |-> 0, time_started |-> 0,
     time_limit |-> 0, show_hints |-> FALSE, hint_index |-> 0,
     show_answer |-> FALSE]

\* AppState::new indexes questions[0]: on an empty vector that panics.
\* user_answer, show_next_btn and correct are written and never read: left out.
AppState_new ==
    IF Len(questions) = 0
    THEN [AppState_unbuilt EXCEPT !.pc = "panicked"]
    ELSE [pc |-> "running", current_question_idx |-> 0, time_started |-> now,
          time_limit |-> questions[1].time_limit_secs, show_hints |-> FALSE,
          hint_index |-> 0, show_answer |-> FALSE]

get_elapsed(a) == now - a.time_started

get_remaining(a) == saturating_sub(a.time_limit, get_elapsed(a))

is_time_expired(a) == get_elapsed(a) >= a.time_limit

reset_question_keeps_hints(a, time_limit) ==
    [a EXCEPT !.time_started = now, !.time_limit = time_limit, !.show_answer = FALSE]

reset_question(a, time_limit) ==
    [a EXCEPT !.time_started = now, !.time_limit = time_limit,
              !.show_hints = FALSE, !.hint_index = 0, !.show_answer = FALSE]

AppState_next_question(a) ==
    IF a.current_question_idx < Len(questions) - 1
    THEN reset_question([a EXCEPT !.current_question_idx = @ + 1],
                        questions[a.current_question_idx + 2].time_limit_secs)
    ELSE a

\* run_app, KeyCode::Char('h'): the set of outcomes.  hints.len() - 1 is a
\* usize subtraction: with no hints it overflows, which panics in a build with
\* overflow checks and wraps to usize::MAX in one without, where
\* hint_index < usize::MAX holds and hint_index is incremented.
run_app_key_h(a) ==
    IF is_time_expired(a)
    THEN {a}
    ELSE LET b == [a EXCEPT !.show_hints = TRUE]
             n == questions[a.current_question_idx + 1].hints
         IN  IF n = 0
             THEN {[b EXCEPT !.pc = "panicked"], [b EXCEPT !.hint_index = @ + 1]}
             ELSE {IF b.hint_index < n - 1 THEN [b EXCEPT !.hint_index = @ + 1] ELSE b}

\* run_app, KeyCode::Char('n')
run_app_key_n(a) == IF is_time_expired(a) THEN AppState_next_question(a) ELSE a

\* run_app, after the key match: if app.is_time_expired() { show_answer = true }
run_app_mark_answer(a) ==
    IF a.pc = "running" /\ is_time_expired(a) THEN [a EXCEPT !.show_answer = TRUE] ELSE a

\* main.rs ui(): the Content block
ui_content(a) ==
    IF ~is_time_expired(a)
    THEN << IF a.show_hints
            THEN ContentLine("hint", a.hint_index + 1,
                             hints_get(questions[a.current_question_idx + 1], a.hint_index))
            ELSE ContentLine("prompt", 0, -1) >>
    ELSE << ContentLine("answer_title", 0, -1), ContentLine("answer", 0, -1) >>

\* ------------------------------------------------------------------ actions
\* The process before App::new / QuizState::new has run.
Init ==
    /\ questions \in get_questions
    /\ pc = "start"
    /\ current_index = 0
    /\ started = 0
    /\ limit = 0
    /\ now = 0
    /\ show_hints = FALSE
    /\ hint_index = 0
    /\ max_hints = 0
    /\ calls = 0
    /\ app = AppState_unbuilt

\* App::new: QuizState::new(repository.get_questions()), HintState::new()
AppNew ==
    /\ pc = "start"
    /\ QuizState_new
    /\ HintState_new
    /\ UNCHANGED <<questions, now, max_hints, calls, app>>

\* KeyCode::Char('h')
KeyHint ==
    /\ pc = "running"
    /\ handle_hint_request
    /\ UNCHANGED <<questions, pc, current_index, started, limit, now, max_hints, calls, app>>

\* KeyCode::Char('n')
KeyNext ==
    /\ pc = "running"
    /\ handle_next_question
    /\ UNCHANGED <<questions, pc, now, max_hints, calls, app>>

\* KeyCode::Char('q') => return Ok(())
KeyQuit ==
    /\ pc = "running"
    /\ pc' = "quit"
    /\ UNCHANGED <<questions, current_index, started, limit, now,
                   show_hints, hint_index, max_hints, calls, app>>

\* The clock advances between loop iterations (poll timeout, sleep).
Tick ==
    /\ pc = "running"
    /\ now < MaxTime
    /\ now' = now + 1
    /\ UNCHANGED <<questions, pc, current_index, started, limit,
                   show_hints, hint_index, max_hints, calls, app>>

Next == AppNew \/ KeyHint \/ KeyNext \/ KeyQuit \/ Tick

Spec == Init /\ [][Next]_vars

\* ---- QuizState driven directly through its public methods
QuizNew ==
    /\ pc = "start"
    /\ QuizState_new
    /\ UNCHANGED <<questions, now, show_hints, hint_index, max_hints, calls, app>>

QuizNextQuestion ==
    /\ pc = "running"
    /\ next_question
    /\ UNCHANGED <<questions, pc, now, show_hints, hint_index, max_hints, calls, app>>

NextSession == QuizNew \/ QuizNextQuestion \/ Tick

SpecSession == Init /\ [][NextSession]_vars

\* ---- HintState driven directly through its public methods, with a fixed
\* ---- max_hints argument and a count of the next_hint calls since new/reset
InitHint ==
    /\ questions = <<>>
    /\ pc = "hint"
    /\ current_index = 0
    /\ started = 0
    /\ limit = 0
    /\ now = 0
    /\ show_hints = FALSE
    /\ hint_index = 0
    /\ max_hints \in 0..MaxHints
    /\ calls = 0
    /\ app = AppState_unbuilt

HintEnable ==
    /\ pc = "hint"
    /\ enable_hints
    /\ UNCHANGED <<questions, pc, current_index, started, limit, now,
                   hint_index, max_hints, calls, app>>

HintNext ==
    /\ pc = "hint"
    /\ calls < MaxCalls
    /\ next_hint(max_hints)
    /\ calls' = calls + 1
    /\ UNCHANGED <<questions, pc, current_index, started, limit, now,
                   show_hints, max_hints, app>>

HintReset ==
    /\ pc = "hint"
    /\ HintState_reset
    /\ calls' = 0
    /\ UNCHANGED <<questions, pc, current_index, started, limit, now, max_hints, app>>

NextHint == HintEnable \/ HintNext \/ HintReset

SpecHint == InitHint /\ [][NextHint]_vars

\* ---- App (app.rs) and the monolithic run_app (main.rs) fed the same bank,
\* ---- the same clock and the same key presses
BothNew ==
    /\ pc = "start"
    /\ QuizState_new
    /\ HintState_new
    /\ app' = AppState_new
    /\ UNCHANGED <<questions, now, max_hints, calls>>

BothKeyHint ==
    /\ pc = "running"
    /\ handle_hint_request
    /\ IF app.pc = "running"
       THEN \E b \in run_app_key_h(app) :
                /\ b.hint_index <= MaxHintGrowth
                /\ app' = run_app_mark_answer(b)
       ELSE app' = app
    /\ UNCHANGED <<questions, pc, current_index, started, limit, now, max_hints, calls>>

BothKeyNext ==
    /\ pc = "running"
    /\ handle_next_question
    /\ app' = IF app.pc = "running"
              THEN run_app_mark_answer(run_app_key_n(app))
              ELSE app
    /\ UNCHANGED <<questions, pc, now, max_hints, calls>>

BothKeyQuit ==
    /\ pc = "running"
    /\ pc' = "quit"
    /\ app' = IF app.pc = "running" THEN [app EXCEPT !.pc = "quit"] ELSE app
    /\ UNCHANGED <<questions, current_index, started, limit, now,
                   show_hints, hint_index, max_hints, calls>>

\* a loop iteration with no key, or a key other than q, h, n
BothIdle ==
    /\ pc = "running"
    /\ app.pc = "running"
    /\ app' = run_app_mark_answer(app)
    /\ UNCHANGED <<questions, pc, current_index, started, limit, now,
                   show_hints, hint_index, max_hints, calls>>

NextBoth == BothNew \/ BothKeyHint \/ BothKeyNext \/ BothKeyQuit \/ BothIdle \/ Tick

SpecBoth == Init /\ [][NextBoth]_vars

\* ---- the event loop with a clock that keeps advancing and a user who
\* ---- presses 'n' whenever the current question is expired and not the last.
\* The clock is followed past MaxTime for as long as the current timer has
\* not expired; once it has, further ticks change no answer the timer gives.
TickLive ==
    /\ pc = "running"
    /\ (now < MaxTime \/ ~Timer_is_expired)
    /\ now' = now + 1
    /\ UNCHANGED <<questions, pc, current_index, started, limit,
                   show_hints, hint_index, max_hints, calls, app>>

PressNextWhenDue ==
    /\ Timer_is_expired
    /\ ~is_last_question
    /\ KeyNext

NextLive == AppNew \/ KeyHint \/ KeyNext \/ KeyQuit \/ TickLive

SpecLive ==
    /\ Init
    /\ [][NextLive]_vars
    /\ WF_vars(TickLive)
    /\ WF_vars(PressNextWhenDue)

\* ------------------------------------------------------------------ claims

\* C1: QuizState::next_question, called on its own while the timer is not
\* expired, changes nothing: current_index, the timer's start instant and the
\* timer's limit keep their values, whatever current_index is.
C1_AdvanceIsNoOpUnlessExpired ==
    [][(QuizNextQuestion /\ ~Timer_is_expired)
         => UNCHANGED <<current_index, started, limit>>]_vars

\* The sum of the time limits of the questions before index i (0-based).
RECURSIVE limits_before(_)
limits_before(i) ==
    IF i = 0 THEN 0 ELSE questions[i].time_limit_secs + limits_before(i - 1)

\* C2: through the event loop, current_index changes only in a step whose
\* outgoing timer is expired; hence whenever question current_index is current,
\* every earlier question has been current for at least its own time limit
\* (the current timer started no earlier than the sum of the earlier limits).
C2_IndexChangesOnlyWhenExpired ==
    /\ [][current_index' # current_index => Timer_is_expired]_vars
    /\ [](pc = "running" => started >= limits_before(current_index))

C2_Witness ==
    /\ pc = "running"
    /\ current_index = 2
    /\ questions[1].time_limit_secs = MaxLimit
    /\ questions[2].time_limit_secs = 1
    /\ show_hints

\* C3: every step that changes current_index increases it by exactly one, so
\* a run of successful advances visits 0, 1, ..., N-1 in order with no skip,
\* no repeat and no step back.
C3_AdvanceByExactlyOne ==
    [][current_index' = current_index \/ current_index' = current_index + 1]_vars

C3_Witness ==
    /\ pc = "running"
    /\ total_questions = 3
    /\ current_index = total_questions - 1
    /\ started > 0

\* C4: on the last question (a single-question bank included) next_question
\* changes neither current_index nor the timer, expired or not, so any number
\* of calls leaves the session as it was.
C4_LastQuestionIsAbsorbing ==
    [][(pc = "running" /\ is_last_question)
         => UNCHANGED <<current_index, started, limit>>]_vars

C4_Witness ==
    /\ pc = "running"
    /\ is_last_question
    /\ current_index >= 1
    /\ now > started
    /\ ~Timer_is_expired

\* C5: a session built from a non-empty bank always has
\* 0 <= current_index < total_questions().
C5_IndexInRange ==
    pc = "running" => (current_index \in Nat /\ current_index < total_questions)

C5_Witness ==
    /\ pc = "running"
    /\ total_questions = 3
    /\ current_index = 2
    /\ Timer_is_expired
    /\ limit > 0

\* C6: constructing a session from an empty question sequence ends in the
\* error value EmptyQuestionBank, not in a crash and not in a session.
C6_EmptyBankIsAnError ==
    (questions = <<>> /\ pc # "start") => pc = "EmptyQuestionBank"

\* C7: on an unexpired question with 3 hints the first hint press shows hint
\* index 0 and each later press shows the next index, capped at 2, with the
\* hints visible after every press: three presses give 0, 1, 2.
C7_ThreePressesShowHints012 ==
    [][(KeyHint /\ ~Timer_is_expired /\ current_question.hints = 3)
         => /\ show_hints'
            /\ hint_index' = IF ~show_hints THEN 0
                             ELSE IF hint_index < 2 THEN hint_index + 1 ELSE 2]_vars

\* C8 (as stated): next_hint(max_hints) never leaves hint_index >= max_hints,
\* for any max_hints >= 0, and changes nothing when max_hints = 0.
C8_IndexBelowMaxForAnyMax ==
    [][HintNext => /\ hint_index' < max_hints
                   /\ (max_hints = 0 => UNCHANGED <<show_hints, hint_index>>)]_vars

\* C8 (amended): next_hint(max_hints) never leaves hint_index >= max_hints for
\* any max_hints >= 1, never leaves it above max(0, max_hints - 1), and changes
\* nothing when max_hints = 0 (hint_index stays 0).
C8_IndexNeverPastLastHint ==
    [][HintNext => /\ hint_index' <= saturating_sub(max_hints, 1)
                   /\ (max_hints >= 1 => hint_index' < max_hints)
                   /\ (max_hints = 0 => UNCHANGED <<show_hints, hint_index>>)]_vars

C8_Witness ==
    /\ pc = "hint"
    /\ max_hints = 0
    /\ calls >= 1
    /\ hint_index = 0

\* C9 (as stated): after k > max_hints calls of next_hint(max_hints) on a fresh
\* HintState, hint_index = max_hints - 1.
C9_SaturatesAtMaxMinusOne ==
    (pc = "hint" /\ calls > max_hints) => hint_index = max_hints - 1

\* C9 (amended): after k > max_hints calls of next_hint(max_hints) on a fresh
\* HintState, hint_index = max(0, max_hints - 1): the last hint when there is
\* one, and 0 when max_hints = 0.
C9_SaturatesAtLastHint ==
    (pc = "hint" /\ calls > max_hints) => hint_index = saturating_sub(max_hints, 1)

C9_Witness ==
    /\ pc = "hint"
    /\ max_hints = 3
    /\ calls > max_hints
    /\ hint_index = 2

\* C10: a 'next' press that changes current_index leaves, in the same step,
\* the hint tracker hidden at index 0 and the timer restarted at the current
\* instant with the new question's time limit, so that it is not expired when
\* that limit is positive.
C10_AdvanceResetsHintsAndTimer ==
    [][current_index' # current_index
         => /\ show_hints' = FALSE
            /\ hint_index' = 0
            /\ started' = now'
            /\ limit' = questions[current_index' + 1].time_limit_secs
            /\ (limit' > 0 => ~Timer_is_expired')]_vars

C10_Witness ==
    /\ pc = "running"
    /\ current_index = 1
    /\ started = now
    /\ started > 0
    /\ limit = MaxLimit
    /\ ~show_hints
    /\ hint_index = 0

\* C11: for a timer with limit > 0 and elapsed time d: is_expired() is true
\* exactly when d >= limit and remaining() = max(0, limit - d); right after
\* the timer is started it is not expired and remaining() <= limit, and from
\* d >= limit on remaining() is exactly 0, never negative.
C11_ExpiryAndRemaining ==
    (pc = "running" /\ limit > 0) =>
        LET d == now - started
        IN  /\ Timer_is_expired <=> d >= limit
            /\ Timer_remaining = (IF limit - d > 0 THEN limit - d ELSE 0)
            /\ (d = 0 => ~Timer_is_expired /\ Timer_remaining <= limit)
            /\ (d >= limit => Timer_remaining = 0)
            /\ Timer_remaining >= 0

C11_Witness ==
    /\ pc = "running"
    /\ limit = 1
    /\ now - started = 3
    /\ current_index = 1

\* C12: once the timer is expired it stays expired in every later state until
\* it is reset, and in the session the timer is reset only by a successful
\* advance: an expired question stays expired until current_index changes.
C12_ExpiredStaysExpired ==
    [][(pc = "running" /\ Timer_is_expired /\ current_index' = current_index)
         => Timer_is_expired']_vars

C12_Witness ==
    /\ pc = "running"
    /\ limit = 1
    /\ now - started = 2
    /\ show_hints
    /\ ~is_last_question

\* C13: HintState::reset from any prior state (any visible flag, any index)
\* leaves show_hints = false and hint_index = 0.
C13_ResetRestoresInitialState ==
    [][HintReset => (show_hints' = FALSE /\ hint_index' = 0)]_vars

C13_Witness ==
    /\ pc = "hint"
    /\ ENABLED HintReset
    /\ show_hints
    /\ hint_index = 2
    /\ calls = 5

\* C14: pressing 'next' on the last question with the timer expired changes
\* nothing of the coordinated state: current_index, the timer and the hint
\* tracker's flag and index all keep their values.
C14_NextOnLastQuestionChangesNothing ==
    [][(KeyNext /\ is_last_question /\ Timer_is_expired)
         => UNCHANGED <<current_index, started, limit, show_hints, hint_index>>]_vars

C17_HintIndexInRangeOfCurrentQuestion ==
    pc = "running" =>
        /\ hint_index \in Nat
        /\ hint_index <= saturating_sub(current_question.hints, 1)

C17_Witness ==
    /\ pc = "running"
    /\ current_index = 1
    /\ questions[1].hints = 3
    /\ current_question.hints = 1
    /\ show_hints
    /\ hint_index = 0
    /\ ~Timer_is_expired

\* C20: no timer of a running session has limit 0: a zero time limit is
\* rejected when the timer is created or reset.
C20_NoZeroLimitTimer ==
    pc = "running" => limit > 0

\* C16: a hint request received while the current timer is expired changes
\* nothing: the hint flag and the hint index keep their values (and so do
\* current_index and the timer), in App::handle_hint_request and in the 'h'
\* arm of run_app alike.
C16_HintRequestWhenExpiredChangesNothing ==
    [][(BothKeyHint /\ Timer_is_expired)
         => /\ UNCHANGED <<show_hints, hint_index, current_index, started, limit>>
            /\ (app.pc = "running" /\ is_time_expired(app))
                 => /\ app'.show_hints = app.show_hints
                    /\ app'.hint_index = app.hint_index
                    /\ app'.current_question_idx = app.current_question_idx
                    /\ app'.time_started = app.time_started
                    /\ app'.time_limit = app.time_limit]_vars

C16_Witness ==
    /\ pc = "running"
    /\ app.pc = "running"
    /\ Timer_is_expired
    /\ is_time_expired(app)
    /\ current_question.hints = 3
    /\ show_hints
    /\ hint_index = 1
    /\ app.show_hints
    /\ app.hint_index = 1
    /\ app.show_answer

\* C18: on a question with no hints, pressing 'h' while unexpired leaves the
\* hint index at 0 in both implementations: hints.len() - 1 does not
\* underflow (no crash) and the index does not grow.
C18_EmptyHintListKeepsIndexZero ==
    /\ (pc = "running" /\ current_question.hints = 0) => hint_index = 0
    /\ (pc = "running" /\ Len(questions) > 0) => app.pc # "panicked"
    /\ (app.pc = "running" /\ questions[app.current_question_idx + 1].hints = 0)
         => app.hint_index = 0

\* Whether the Content block shows the answer, and whether it shows the hint
\* prompt or a hint.
ShowsAnswer(lines) == \E i \in 1..Len(lines) : lines[i].kind = "answer"

ShowsHint(lines) == \E i \in 1..Len(lines) : lines[i].kind \in {"prompt", "hint"}

\* C19: the content rendered for the current question shows the answer if and
\* only if the current timer is expired, and shows the hint prompt or a hint
\* if and only if it is not: the answer is never shown while time remains and
\* never together with a hint (QuizUI::render_content and main.rs ui alike).
C19_AnswerShownIffExpired ==
    /\ pc = "running"
         => /\ ShowsAnswer(render_content) <=> Timer_is_expired
            /\ ShowsHint(render_content) <=> ~Timer_is_expired
    /\ app.pc = "running"
         => /\ ShowsAnswer(ui_content(app)) <=> is_time_expired(app)
            /\ ShowsHint(ui_content(app)) <=> ~is_time_expired(app)

C19_Witness ==
    /\ pc = "running"
    /\ app.pc = "running"
    /\ current_index = 1
    /\ ~Timer_is_expired
    /\ now > started
    /\ show_hints
    /\ hint_index = 2
    /\ ShowsHint(render_content)
    /\ ShowsHint(ui_content(app))

\* C22: on a bank in which every question has at least one hint, App and the
\* monolithic run_app, fed the same presses of h, n, q and the same clock, show
\* the same observation in every state: the same current index, timer limit
\* and expired flag (both run or have quit together), and, while the timer is
\* not expired, the same hint visibility and hint index.
C22_BothImplementationsAgree ==
    (pc \in {"running", "quit"} /\ \A i \in 1..Len(questions) : questions[i].hints >= 1)
        => /\ app.pc = pc
           /\ app.current_question_idx = current_index
           /\ app.time_limit = limit
           /\ is_time_expired(app) <=> Timer_is_expired
           /\ ~Timer_is_expired
                => /\ app.show_hints = show_hints
                   /\ app.hint_index = hint_index

C22_Witness ==
    /\ pc = "running"
    /\ Len(questions) = 3
    /\ \A i \in 1..Len(questions) : questions[i].hints >= 1
    /\ current_index = 1
    /\ questions[1].hints = 1
    /\ current_question.hints = 3
    /\ ~Timer_is_expired
    /\ show_hints
    /\ hint_index = 2
    /\ app.show_hints
    /\ app.hint_index = 2

\* The session is on its last question with the timer expired.
Finished == pc = "running" /\ is_last_question /\ Timer_is_expired

\* C21: if the clock keeps advancing and 'n' is pressed whenever the current
\* question is expired and not the last (weak fairness on both), a running
\* session eventually is on its last question with the timer expired, unless
\* the user quits first; and from there no step changes current_index or the
\* timer.
C21_EventuallyFinished ==
    /\ [](pc = "running" => <>(Finished \/ pc = "quit"))
    /\ [][Finished => UNCHANGED <<current_index, started, limit>>]_vars

C21_Witness ==
    /\ Finished
    /\ Len(questions) = 3
    /\ \A i \in 1..3 : questions[i].time_limit_secs = MaxLimit
    /\ show_hints

====
